---- MODULE Spec2Model ----
(***************************************************************************)
(* A model of opentakserver.hostname_resolver.HostnameResolver: the        *)
(* priority chain of get_external_hostname, the localhost classifier, the  *)
(* hostname syntax validator and the external-IP prober with its one-slot  *)
(* cache.                                                                  *)
(*                                                                         *)
(* A Python str is a sequence of one-character strings, so that strip,     *)
(* lower, split and the regular expressions are computed on the characters *)
(* as the code computes them.  An Optional[str] is a record                *)
(* [isNone, s]: None and "" are different values that are both falsy.      *)
(***************************************************************************)
EXTENDS Integers, Sequences, FiniteSets, TLC

(***************************************************************************)
(* Characters and the str methods the resolver uses.                       *)
(***************************************************************************)
Digits == {"0", "1", "2", "3", "4", "5", "6", "7", "8", "9"}

UpperSeq == << "A", "B", "C", "D", "E", "F", "G", "H", "I", "J", "K", "L", "M",
               "N", "O", "P", "Q", "R", "S", "T", "U", "V", "W", "X", "Y", "Z" >>

LowerSeq == << "a", "b", "c", "d", "e", "f", "g", "h", "i", "j", "k", "l", "m",
               "n", "o", "p", "q", "r", "s", "t", "u", "v", "w", "x", "y", "z" >>

Uppers == {UpperSeq[i] : i \in DOMAIN UpperSeq}

Lowers == {LowerSeq[i] : i \in DOMAIN LowerSeq}

Whitespace == {" ", "\t", "\n", "\r"}

\* the class [a-zA-Z0-9.-] of validate_hostname
HostChars == Uppers \cup Lowers \cup Digits \cup {".", "-"}

\* the class [a-zA-Z0-9-] of a label
LabelChars == Uppers \cup Lowers \cup Digits \cup {"-"}

Front(s) == SubSeq(s, 1, Len(s) - 1)

LowerChar(c) ==
  IF c \in Uppers THEN LowerSeq[CHOOSE i \in DOMAIN UpperSeq : UpperSeq[i] = c] ELSE c

\* str.lower()
Lower(s) == [i \in DOMAIN s |-> LowerChar(s[i])]

RECURSIVE LStrip(_)
LStrip(s) == IF s # <<>> /\ Head(s) \in Whitespace THEN LStrip(Tail(s)) ELSE s

RECURSIVE RStrip(_)
RStrip(s) == IF s # <<>> /\ s[Len(s)] \in Whitespace THEN RStrip(Front(s)) ELSE s

\* str.strip()
Strip(s) == RStrip(LStrip(s))

\* the index of the first occurrence of character c in s, 0 when there is none
FirstIndex(s, c) ==
  IF \E i \in DOMAIN s : s[i] = c
  THEN CHOOSE i \in DOMAIN s : s[i] = c /\ \A j \in 1..(i - 1) : s[j] # c
  ELSE 0

\* str.split(c): always at least one part, empty parts are kept
RECURSIVE Split(_, _)
Split(s, c) ==
  LET i == FirstIndex(s, c)
  IN IF i = 0 THEN << s >>
     ELSE << SubSeq(s, 1, i - 1) >> \o Split(SubSeq(s, i + 1, Len(s)), c)

AllIn(s, chars) == \A i \in DOMAIN s : s[i] \in chars

StartsWith(s, c) == s # <<>> /\ s[1] = c

EndsWith(s, c) == s # <<>> /\ s[Len(s)] = c

(***************************************************************************)
(* re.match(r'^...$', s): Python's $ matches at the end of the string and  *)
(* also just before a newline that ends the string.                        *)
(***************************************************************************)
\* the prefixes of s at which a pattern's $ matches
BeforeDollar(s) == {s} \cup (IF EndsWith(s, "\n") THEN {Front(s)} ELSE {})

\* \d+ : a non-empty run of digits
IsDigitRun(s) == s # <<>> /\ AllIn(s, Digits)

\* \d+\.\d+\.\d+\.\d+ as a full match
FullDottedQuad(s) ==
  LET parts == Split(s, ".")
  IN Len(parts) = 4 /\ \A i \in 1..4 : IsDigitRun(parts[i])

\* 127\.\d+\.\d+\.\d+ as a full match
FullLoopback(s) == FullDottedQuad(s) /\ Split(s, ".")[1] = << "1", "2", "7" >>

DigitValue(c) == CHOOSE n \in 0..9 : << "0", "1", "2", "3", "4", "5", "6", "7", "8", "9" >>[n + 1] = c

\* int(part) for a run of digits, saturated at 256: the code only compares
\* the number with 0 and 255, and Python integers do not overflow
RECURSIVE IntCapped(_)
IntCapped(s) ==
  IF s = <<>> THEN 0
  ELSE LET v == 10 * IntCapped(Front(s)) + DigitValue(s[Len(s)])
       IN IF v > 256 THEN 256 ELSE v

\* int(part) raises ValueError unless part, with surrounding whitespace
\* removed, is a run of digits (a sign cannot pass \d+)
IntRaises(part) == ~IsDigitRun(Strip(part))

\* the loop "for part in parts: num = int(part); if num < 0 or num > 255"
OctetsInRange(s) ==
  LET parts == Split(s, ".")
  IN \A i \in DOMAIN parts : ~IntRaises(parts[i]) /\ IntCapped(Strip(parts[i])) <= 255

(***************************************************************************)
(* Optional[str]                                                           *)
(***************************************************************************)
None == [isNone |-> TRUE, s |-> <<>>]

Some(s) == [isNone |-> FALSE, s |-> s]

\* Python truthiness of an Optional[str]: neither None nor ""
Truthy(o) == ~o.isNone /\ o.s # <<>>

(***************************************************************************)
(* The pure functions of HostnameResolver.                                  *)
(***************************************************************************)
FullLocalhostWord(s) == s = << "l", "o", "c", "a", "l", "h", "o", "s", "t" >>

FullIPv6Loopback(s) == s = << ":", ":", "1" >>

FullUnspecified(s) == s = << "0", ".", "0", ".", "0", ".", "0" >>

\* any(re.match(p, hostname) for p in LOCALHOST_PATTERNS)
LOCALHOST_PATTERNS(s) ==
  \/ \E x \in BeforeDollar(s) : FullLocalhostWord(x)
  \/ \E x \in BeforeDollar(s) : FullLoopback(x)
  \/ \E x \in BeforeDollar(s) : FullIPv6Loopback(x)
  \/ \E x \in BeforeDollar(s) : FullUnspecified(x)

\* is_localhost_address without the strip() of line 186
is_localhost_address_untrimmed(hostname) ==
  IF ~Truthy(hostname) THEN TRUE
  ELSE LOCALHOST_PATTERNS(Lower(hostname.s))

\* lines 173-192
is_localhost_address(hostname) ==
  IF ~Truthy(hostname) THEN TRUE
  ELSE LOCALHOST_PATTERNS(Strip(Lower(hostname.s)))

FullHostChars(s) == s # <<>> /\ AllIn(s, HostChars)

FullLabelChars(s) == s # <<>> /\ AllIn(s, LabelChars)

MaxHostnameLen == 253

MaxLabelLen == 63

Verdict(valid, msg) == [valid |-> valid, msg |-> msg]

\* the labels loop of validate_hostname: the verdict of the first label
\* that breaks a rule, (True, "") when none does
RECURSIVE ValidateLabels(_)
ValidateLabels(labels) ==
  IF labels = <<>> THEN Verdict(TRUE, "")
  ELSE LET label == Head(labels)
       IN IF label = <<>> THEN Verdict(FALSE, "Empty label in hostname")
          ELSE IF Len(label) > MaxLabelLen
            THEN Verdict(FALSE, "Label too long in hostname (max 63 characters)")
          ELSE IF ~(\E x \in BeforeDollar(label) : FullLabelChars(x))
            THEN Verdict(FALSE, "Invalid characters in hostname label")
          ELSE IF StartsWith(label, "-") \/ EndsWith(label, "-")
            THEN Verdict(FALSE, "Hostname label cannot start or end with hyphen")
          ELSE ValidateLabels(Tail(labels))

\* validate_hostname with the character check before the length check
validate_hostname_chars_first(hostname) ==
  IF ~Truthy(hostname) THEN Verdict(FALSE, "Hostname is empty")
  ELSE LET h == Strip(hostname.s)
       IN IF ~(\E x \in BeforeDollar(h) : FullHostChars(x))
            THEN Verdict(FALSE, "Hostname contains invalid characters")
          ELSE IF Len(h) > MaxHostnameLen
            THEN Verdict(FALSE, "Hostname too long (max 253 characters)")
          ELSE IF \E x \in BeforeDollar(h) : FullDottedQuad(x)
            THEN IF OctetsInRange(h) THEN Verdict(TRUE, "")
                 ELSE Verdict(FALSE, "Invalid IP address format")
          ELSE IF \E i \in DOMAIN h : h[i] = "."
            THEN ValidateLabels(Split(h, "."))
          ELSE Verdict(TRUE, "")

\* validate_hostname without the strip() of line 207
validate_hostname_untrimmed(hostname) ==
  IF ~Truthy(hostname) THEN Verdict(FALSE, "Hostname is empty")
  ELSE LET h == hostname.s
       IN IF Len(h) > MaxHostnameLen
            THEN Verdict(FALSE, "Hostname too long (max 253 characters)")
          ELSE IF ~(\E x \in BeforeDollar(h) : FullHostChars(x))
            THEN Verdict(FALSE, "Hostname contains invalid characters")
          ELSE IF \E x \in BeforeDollar(h) : FullDottedQuad(x)
            THEN IF OctetsInRange(h) THEN Verdict(TRUE, "")
                 ELSE Verdict(FALSE, "Invalid IP address format")
          ELSE IF \E i \in DOMAIN h : h[i] = "."
            THEN ValidateLabels(Split(h, "."))
          ELSE Verdict(TRUE, "")

\* lines 194-241
validate_hostname(hostname) ==
  IF ~Truthy(hostname) THEN Verdict(FALSE, "Hostname is empty")
  ELSE LET h == Strip(hostname.s)
       IN IF Len(h) > MaxHostnameLen
            THEN Verdict(FALSE, "Hostname too long (max 253 characters)")
          ELSE IF ~(\E x \in BeforeDollar(h) : FullHostChars(x))
            THEN Verdict(FALSE, "Hostname contains invalid characters")
          ELSE IF \E x \in BeforeDollar(h) : FullDottedQuad(x)
            THEN IF OctetsInRange(h) THEN Verdict(TRUE, "")
                 ELSE Verdict(FALSE, "Invalid IP address format")
          ELSE IF \E i \in DOMAIN h : h[i] = "."
            THEN ValidateLabels(Split(h, "."))
          ELSE Verdict(TRUE, "")

\* is_valid_ip without the range check of lines 316-319
is_valid_ip_unranged(ip) ==
  IF ~Truthy(ip) THEN FALSE
  ELSE \E x \in BeforeDollar(ip.s) : FullDottedQuad(x)

\* lines 299-324
is_valid_ip(ip) ==
  IF ~Truthy(ip) THEN FALSE
  ELSE IF \E x \in BeforeDollar(ip.s) : FullDottedQuad(x) THEN OctetsInRange(ip.s)
  ELSE FALSE

(***************************************************************************)
(* The strings the calls, the environment and the probe services draw      *)
(* from.                                                                   *)
(***************************************************************************)
\* ''
sEmpty == <<>>

\* ' '
sSpace == << " " >>

\* 'localhost'
sLocalhostLit == << "l", "o", "c", "a", "l", "h", "o", "s", "t" >>

\* 'true'
sTrue == << "t", "r", "u", "e" >>

\* 'false'
sFalse == << "f", "a", "l", "s", "e" >>

\* 'localhost:8080'
sReqLocalhost == << "l", "o", "c", "a", "l", "h", "o", "s", "t", ":", "8", "0", "8", "0" >>

\* 'example.com:8080'
sReqExample == << "e", "x", "a", "m", "p", "l", "e", ".", "c", "o", "m", ":", "8", "0", "8", "0" >>

\* '[::1]:8080'
sReqIPv6 == << "[", ":", ":", "1", "]", ":", "8", "0", "8", "0" >>

\* ' ovr.io'
sOvrPadded == << " ", "o", "v", "r", ".", "i", "o" >>

\* 'ext.io'
sExtHost == << "e", "x", "t", ".", "i", "o" >>

\* '127.0.0.1'
sSrvHost == << "1", "2", "7", ".", "0", ".", "0", ".", "1" >>

\* 'True'
sDisableTrue == << "T", "r", "u", "e" >>

\* '1.2.3.4\n'
sBodyIp == << "1", ".", "2", ".", "3", ".", "4", "\n" >>

\* '127.0.0.1'
sBodyLoopback == << "1", "2", "7", ".", "0", ".", "0", ".", "1" >>

\* '256.1.1.1'
sBodyBadIp == << "2", "5", "6", ".", "1", ".", "1", ".", "1" >>

\* 'invalid'
sInvalid == << "i", "n", "v", "a", "l", "i", "d" >>

\* '{}'
sBodyJson == << "{", "}" >>

\* '1.2.3.4, 9.9.9.9'
sOrigin == << "1", ".", "2", ".", "3", ".", "4", ",", " ", "9", ".", "9", ".", "9", ".", "9" >>

\* request_host as the HTTP layer passes it: absent, empty, with a port,
\* an IPv6 literal
RequestHosts ==
  {None, Some(sEmpty), Some(sReqLocalhost), Some(sReqExample), Some(sReqIPv6)}

\* override_host: absent, empty, whitespace only, a valid name with a
\* leading blank
OverrideHosts == {None, Some(sEmpty), Some(sSpace), Some(sOvrPadded)}

ExternalHostValues == {None, Some(sEmpty), Some(sSpace), Some(sExtHost)}

ServerHostValues == {None, Some(sSrvHost)}

DisableValues == {None, Some(sDisableTrue)}

EnvNames == {"EXTERNAL_HOST", "SERVER_HOST", "QR_DISABLE_EXTERNAL_IP"}

EnvValues(name) ==
  CASE name = "EXTERNAL_HOST" -> ExternalHostValues
    [] name = "SERVER_HOST" -> ServerHostValues
    [] name = "QR_DISABLE_EXTERNAL_IP" -> DisableValues

Environments == {e \in [EnvNames -> ExternalHostValues \cup ServerHostValues \cup DisableValues] :
                   \A n \in EnvNames : e[n] \in EnvValues(n)}

\* os.getenv(name, default): the default only when the variable is unset
getenv(e, name, default) == IF e[name].isNone THEN default ELSE e[name]

EXTERNAL_IP_SERVICES ==
  << "https://api.ipify.org", "https://httpbin.org/ip", "https://icanhazip.com",
     "https://ifconfig.me/ip" >>

\* 'httpbin.org' in service_url
IsHttpbin(service_url) == service_url = "https://httpbin.org/ip"

DefaultCacheTimeout == 300

\* int(os.getenv('QR_HOST_DETECTION_TIMEOUT', '300')), in the clock's units
CacheTimeouts == {0, 2, DefaultCacheTimeout}

\* the clock stops here
MaxTime == 2

(***************************************************************************)
(* The cache slot _external_ip_cache: None, or a dict in which each of the *)
(* keys 'ip', 'timestamp', 'service' may be absent.  A 'timestamp' is a    *)
(* datetime, or (written from outside only) None or a str.                 *)
(***************************************************************************)
NoKey == [has |-> FALSE, v |-> None]

Key(v) == [has |-> TRUE, v |-> v]

NoTimestamp == [k |-> "absent", t |-> 0]

Datetime(t) == [k |-> "datetime", t |-> t]

CacheNone == [isNone |-> TRUE, ip |-> NoKey, timestamp |-> NoTimestamp, service |-> ""]

CacheDict(ip, timestamp, service) ==
  [isNone |-> FALSE, ip |-> ip, timestamp |-> timestamp, service |-> service]

\* truthiness of the slot: not None and not an empty dict
CacheTruthy(c) ==
  ~c.isNone /\ (c.ip.has \/ c.timestamp.k # "absent" \/ c.service # "")

\* CacheLookup with an entry still served at the age of the timeout (<=)
CacheLookupInclusive(c, t, timeout) ==
  IF ~CacheTruthy(c) THEN "miss"
  ELSE IF c.timestamp.k = "absent" THEN "miss"
  ELSE IF c.timestamp.k # "datetime" THEN "raise"
  ELSE IF t - c.timestamp.t <= timeout THEN "hit"
  ELSE "miss"

\* lines 251-255: "miss", "hit", or "raise" when the subtraction
\* datetime.now() - cache_time is a TypeError.  A dict without 'timestamp'
\* reads datetime.min, which is older than any timeout.
CacheLookup(c, t, timeout) ==
  IF ~CacheTruthy(c) THEN "miss"
  ELSE IF c.timestamp.k = "absent" THEN "miss"
  ELSE IF c.timestamp.k # "datetime" THEN "raise"
  ELSE IF t - c.timestamp.t < timeout THEN "hit"
  ELSE "miss"

\* self._external_ip_cache.get('ip')
CachedIp(c) == IF c.ip.has THEN c.ip.v ELSE None

(***************************************************************************)
(* What one probe service can answer to one GET.                           *)
(***************************************************************************)
NoJson == [k |-> "ValueError", hasOrigin |-> FALSE, origin |-> <<>>]

JsonOrigin(o) == [k |-> "dict", hasOrigin |-> TRUE, origin |-> o]

Raises(kind) == [kind |-> kind, text |-> <<>>, json |-> NoJson]

Body(text, json) == [kind |-> "ok", text |-> text, json |-> json]

\* requests.get raising (timeout, connection failure), a non-2xx status
\* (raise_for_status raising HTTPError), any other exception, and bodies:
\* an IP with a newline, a loopback IP, an out-of-range IP, JSON
Responses ==
  {Raises("ConnectionError"), Raises("HTTPError"), Raises("Exception"),
   Body(sBodyIp, NoJson), Body(sBodyLoopback, NoJson), Body(sBodyBadIp, NoJson),
   Body(sBodyJson, JsonOrigin(sOrigin))}

\* lines 265-274: the candidate IP read from a 2xx response
ParseResponse(service_url, r) ==
  IF IsHttpbin(service_url) /\ r.json.k = "dict"
  THEN Strip(Split(IF r.json.hasOrigin THEN r.json.origin ELSE <<>>, ",")[1])
  ELSE Strip(r.text)

\* ResponseOutcome without the check of line 277: any 2xx body is accepted
ResponseOutcomeUnvalidated(service_url, r) ==
  IF r.kind \in {"ConnectionError", "HTTPError"} THEN "RequestException"
  ELSE IF r.kind # "ok" THEN "Exception"
  ELSE "ok"

\* how the loop body ends for one response: "ok" is the return of line 285,
\* "RequestException" and "Exception" are the two except clauses
ResponseOutcome(service_url, r) ==
  IF r.kind \in {"ConnectionError", "HTTPError"} THEN "RequestException"
  ELSE IF r.kind # "ok" THEN "Exception"
  ELSE IF is_valid_ip(Some(ParseResponse(service_url, r))) THEN "ok"
  ELSE "invalid_ip"

\* what the log keeps of a failed request: its kind, or that it failed
LogOutcome(detailed, outcome) ==
  IF detailed \/ outcome = "ok" THEN outcome ELSE "failed"

ProbeResult(raised, ip, cache, log) ==
  [raised |-> raised, ip |-> ip, cache |-> cache, log |-> log]

\* one request of the log: the service, how the loop body ended, and the
\* candidate IP read from the response when it was accepted
LogEntry(service_url, outcome, ip) ==
  [service |-> service_url, outcome |-> outcome, ip |-> ip]

\* ProbeFrom with a loop that an invalid body ends: None is returned
\* without trying the services that follow
RECURSIVE ProbeFromStopsOnInvalid(_, _, _, _, _)
ProbeFromStopsOnInvalid(i, log, c, t, detailed) ==
  IF i > Len(EXTERNAL_IP_SERVICES) THEN {ProbeResult(FALSE, None, c, log)}
  ELSE LET url == EXTERNAL_IP_SERVICES[i]
           good == {r \in Responses : ResponseOutcome(url, r) = "ok"}
           bad == {LogOutcome(detailed, ResponseOutcome(url, r)) : r \in Responses \ good}
       IN {ProbeResult(FALSE, Some(ParseResponse(url, r)),
                       CacheDict(Key(Some(ParseResponse(url, r))), Datetime(t), url),
                       Append(log, LogEntry(url, "ok", ParseResponse(url, r)))) : r \in good}
          \cup UNION {IF o = "invalid_ip"
                      THEN {ProbeResult(FALSE, None, c, Append(log, LogEntry(url, o, <<>>)))}
                      ELSE ProbeFromStopsOnInvalid(i + 1, Append(log, LogEntry(url, o, <<>>)),
                                                   c, t, detailed) : o \in bad}

\* ProbeFrom with a slot that is emptied when every service has failed
RECURSIVE ProbeFromDropsStale(_, _, _, _, _)
ProbeFromDropsStale(i, log, c, t, detailed) ==
  IF i > Len(EXTERNAL_IP_SERVICES) THEN {ProbeResult(FALSE, None, CacheNone, log)}
  ELSE LET url == EXTERNAL_IP_SERVICES[i]
           good == {r \in Responses : ResponseOutcome(url, r) = "ok"}
           bad == {LogOutcome(detailed, ResponseOutcome(url, r)) : r \in Responses \ good}
       IN {ProbeResult(FALSE, Some(ParseResponse(url, r)),
                       CacheDict(Key(Some(ParseResponse(url, r))), Datetime(t), url),
                       Append(log, LogEntry(url, "ok", ParseResponse(url, r)))) : r \in good}
          \cup UNION {ProbeFromDropsStale(i + 1, Append(log, LogEntry(url, o, <<>>)), c, t, detailed) : o \in bad}

\* lines 258-297: the loop over EXTERNAL_IP_SERVICES from index i on, as the
\* set of ways it can end, one for each way the services can answer
RECURSIVE ProbeFrom(_, _, _, _, _)
ProbeFrom(i, log, c, t, detailed) ==
  IF i > Len(EXTERNAL_IP_SERVICES) THEN {ProbeResult(FALSE, None, c, log)}
  ELSE LET url == EXTERNAL_IP_SERVICES[i]
           good == {r \in Responses : ResponseOutcome(url, r) = "ok"}
           bad == {LogOutcome(detailed, ResponseOutcome(url, r)) : r \in Responses \ good}
       IN {ProbeResult(FALSE, Some(ParseResponse(url, r)),
                       CacheDict(Key(Some(ParseResponse(url, r))), Datetime(t), url),
                       Append(log, LogEntry(url, "ok", ParseResponse(url, r)))) : r \in good}
          \cup UNION {ProbeFrom(i + 1, Append(log, LogEntry(url, o, <<>>)), c, t, detailed) : o \in bad}

\* get_external_ip with the slot c at time t: the set of its outcomes
get_external_ip(c, t, timeout, detailed) ==
  LET look == CacheLookup(c, t, timeout)
  IN IF look = "raise" THEN {ProbeResult(TRUE, None, c, <<>>)}
     ELSE IF look = "hit" THEN {ProbeResult(FALSE, CachedIp(c), c, <<>>)}
     ELSE ProbeFrom(1, <<>>, c, t, detailed)

(***************************************************************************)
(* get_external_hostname                                                   *)
(***************************************************************************)
\* a warning: the fixed text and the part an f-string adds to it.  The
\* hostname of a result is an Optional[str], as Python does not enforce the
\* dataclass's annotation.
Warning(text, detail) == [text |-> text, detail |-> detail]

HostnameResult(hostname, detection_method, is_localhost, is_external_accessible, warnings, timestamp) ==
  [hostname |-> hostname, detection_method |-> detection_method,
   is_localhost |-> is_localhost, is_external_accessible |-> is_external_accessible,
   warnings |-> warnings, timestamp |-> timestamp]

\* Python's "a or b" on two Optional[str]
PyOr(a, b) == IF Truthy(a) THEN a ELSE b

\* env_host with the two variables read in the other order
env_host_server_first(e) == PyOr(e["SERVER_HOST"], e["EXTERNAL_HOST"])

\* line 100
env_host(e) == PyOr(e["EXTERNAL_HOST"], e["SERVER_HOST"])

\* DirectTier returning the host with surrounding whitespace removed
DirectTierTrimmed(host, detection_method, noun, t) ==
  LET is_localhost == is_localhost_address(host)
      verdict == validate_hostname(host)
      w1 == IF ~verdict.valid
            THEN << Warning(noun \o " hostname validation failed: ", verdict.msg) >>
            ELSE <<>>
      w2 == IF is_localhost
            THEN << Warning(noun \o " hostname appears to be localhost - may not work for external clients", "") >>
            ELSE <<>>
  IN HostnameResult(Some(Strip(host.s)), detection_method, is_localhost,
                    ~is_localhost /\ verdict.valid, w1 \o w2, t)

\* lines 81-97 and 102-118: the override tier and the environment tier
\* differ in detection_method and in the words of their warnings only
DirectTier(host, detection_method, noun, t) ==
  LET is_localhost == is_localhost_address(host)
      verdict == validate_hostname(host)
      w1 == IF ~verdict.valid
            THEN << Warning(noun \o " hostname validation failed: ", verdict.msg) >>
            ELSE <<>>
      w2 == IF is_localhost
            THEN << Warning(noun \o " hostname appears to be localhost - may not work for external clients", "") >>
            ELSE <<>>
  IN HostnameResult(host, detection_method, is_localhost,
                    ~is_localhost /\ verdict.valid, w1 \o w2, t)

\* lines 125-132
ExternalIpTier(external_ip, warnings, t) ==
  HostnameResult(external_ip, "external_ip", FALSE, TRUE, warnings, t)

\* FallbackTier returning the request host with its port
FallbackTierKeepsPort(request_host, warnings, t) ==
  LET fallback_host == IF Truthy(request_host) THEN request_host ELSE Some(sLocalhostLit)
  IN HostnameResult(fallback_host, "fallback", TRUE, FALSE,
       warnings \o
       << Warning("Using fallback hostname - QR code may not work for external clients", ""),
          Warning("Consider setting EXTERNAL_HOST environment variable or providing server_host parameter", "") >>,
       t)

\* lines 160-171
FallbackTier(request_host, warnings, t) ==
  LET fallback_host == IF Truthy(request_host) THEN Some(Split(request_host.s, ":")[1])
                       ELSE Some(sLocalhostLit)
  IN HostnameResult(fallback_host, "fallback", TRUE, FALSE,
       warnings \o
       << Warning("Using fallback hostname - QR code may not work for external clients", ""),
          Warning("Consider setting EXTERNAL_HOST environment variable or providing server_host parameter", "") >>,
       t)

\* CleanHost without the removal of the port
CleanHostKeepsPort(request_host) == request_host.s

\* line 140: request_host.split(':')[0]
CleanHost(request_host) == Split(request_host.s, ":")[1]

\* lines 138-171: the request-host tier and the fallback tier
LowerTiers(request_host, warnings, t) ==
  IF Truthy(request_host)
  THEN LET clean_host == CleanHost(request_host)
       IN IF ~is_localhost_address(Some(clean_host))
          THEN LET verdict == validate_hostname(Some(clean_host))
               IN IF verdict.valid
                  THEN HostnameResult(Some(clean_host), "request_host", FALSE, TRUE, warnings, t)
                  ELSE FallbackTier(request_host,
                         Append(warnings, Warning("Request host validation failed: ", verdict.msg)), t)
          ELSE FallbackTier(request_host,
                 Append(warnings,
                        Warning("Request host is localhost - not suitable for external clients", "")), t)
  ELSE FallbackTier(request_host, warnings, t)

\* how a call of get_external_hostname ends: an exception or a result, the
\* slot it leaves, and, when it called get_external_ip (probed), how that
\* call ended (p)
HostnameCall(raised, result, probed, p) ==
  [raised |-> raised, result |-> result, probed |-> probed, p |-> p]

\* get_external_ip was not called: nothing returned, the slot as it was
NotProbed(c) == ProbeResult(FALSE, None, c, <<>>)

\* ProbeTier without the try/except of lines 122-135: an exception of
\* get_external_ip leaves get_external_hostname
ProbeTierUncaught(p, request_host, t) ==
  IF p.raised THEN HostnameCall(TRUE, <<>>, TRUE, p)
  ELSE IF Truthy(p.ip)
  THEN HostnameCall(FALSE, << ExternalIpTier(p.ip, <<>>, t) >>, TRUE, p)
  ELSE HostnameCall(FALSE, << LowerTiers(request_host, <<>>, t) >>, TRUE, p)

\* lines 121-135 for one outcome p of get_external_ip, and what follows
ProbeTier(p, request_host, t) ==
  IF p.raised
  THEN HostnameCall(FALSE,
         << LowerTiers(request_host, << Warning("External IP detection failed: ", "TypeError") >>, t) >>,
         TRUE, p)
  ELSE IF Truthy(p.ip)
  THEN HostnameCall(FALSE, << ExternalIpTier(p.ip, <<>>, t) >>, TRUE, p)
  ELSE HostnameCall(FALSE, << LowerTiers(request_host, <<>>, t) >>, TRUE, p)

\* get_external_hostname with the external IP looked up before the tiers
\* are gone through: the override and the environment tier probe as well
get_external_hostname_probes_first(request_host, override_host, e, disable_external_ip, c, t, timeout) ==
  IF Truthy(override_host) /\ ~disable_external_ip
  THEN {HostnameCall(FALSE, << DirectTier(override_host, "override", "Override", t) >>, TRUE, p) :
          p \in get_external_ip(c, t, timeout, FALSE)}
  ELSE IF Truthy(override_host)
  THEN {HostnameCall(FALSE, << DirectTier(override_host, "override", "Override", t) >>,
                     FALSE, NotProbed(c))}
  ELSE IF Truthy(env_host(e)) /\ ~disable_external_ip
  THEN {HostnameCall(FALSE, << DirectTier(env_host(e), "env_var", "Environment", t) >>, TRUE, p) :
          p \in get_external_ip(c, t, timeout, FALSE)}
  ELSE IF Truthy(env_host(e))
  THEN {HostnameCall(FALSE, << DirectTier(env_host(e), "env_var", "Environment", t) >>,
                     FALSE, NotProbed(c))}
  ELSE IF ~disable_external_ip
  THEN {ProbeTier(p, request_host, t) : p \in get_external_ip(c, t, timeout, FALSE)}
  ELSE {HostnameCall(FALSE, << LowerTiers(request_host, <<>>, t) >>, FALSE, NotProbed(c))}

\* lines 65-171: the set of ways the call can end
get_external_hostname(request_host, override_host, e, disable_external_ip, c, t, timeout) ==
  IF Truthy(override_host)
  THEN {HostnameCall(FALSE, << DirectTier(override_host, "override", "Override", t) >>,
                     FALSE, NotProbed(c))}
  ELSE IF Truthy(env_host(e))
  THEN {HostnameCall(FALSE, << DirectTier(env_host(e), "env_var", "Environment", t) >>,
                     FALSE, NotProbed(c))}
  ELSE IF ~disable_external_ip
  THEN {ProbeTier(p, request_host, t) : p \in get_external_ip(c, t, timeout, FALSE)}
  ELSE {HostnameCall(FALSE, << LowerTiers(request_host, <<>>, t) >>, FALSE, NotProbed(c))}

(***************************************************************************)
(* The state: the process environment, the clock, one resolver, and the    *)
(* most recent operation with its time (at), what it was given and what it *)
(* returned:                                                               *)
(* raised and result are those of the operation, probed tells whether      *)
(* get_external_ip ran, and probe_raised, ip and log are what it raised,   *)
(* returned and requested.  threads holds, for each thread that uses the   *)
(* resolver concurrently, its position in get_external_ip and its locals.  *)
(***************************************************************************)
VARIABLES env, now, cache, cache_timeout, disable_external_ip, threads, last

vars == << env, now, cache, cache_timeout, disable_external_ip, threads, last >>

Observation(op, t, request_host, override_host, raised, result, probed, p) ==
  [op |-> op, at |-> t, request_host |-> request_host, override_host |-> override_host,
   raised |-> raised, result |-> result, probed |-> probed,
   probe_raised |-> p.raised, ip |-> p.ip, log |-> p.log]

Idle(op, t) == Observation(op, t, None, None, FALSE, <<>>, FALSE, NotProbed(CacheNone))

\* the threads that share one resolver
Threads == {"t1", "t2", "t3"}

\* a thread: where it is (pc), whether it called clear_cache, the requests
\* it issued (log), its locals ip and service_url, and how its call ended
ThreadState(pc, cleared, log, ip, service_url, returned, raised) ==
  [pc |-> pc, cleared |-> cleared, log |-> log, ip |-> ip, service_url |-> service_url,
   returned |-> returned, raised |-> raised]

\* a thread that has not called the resolver yet
ThreadStart == ThreadState("start", FALSE, <<>>, None, "", None, "")

\* line 63
DisabledBy(e) ==
  Lower(getenv(e, "QR_DISABLE_EXTERNAL_IP", Some(sFalse)).s) = sTrue

\* HostnameResolver(): lines 58-63
Init ==
  /\ env \in Environments
  /\ now = 0
  /\ cache = CacheNone
  /\ cache_timeout \in CacheTimeouts
  /\ disable_external_ip = DisabledBy(env)
  /\ threads = [t \in Threads |-> ThreadStart]
  /\ last = Idle("init", 0)

\* os.environ[name] = value, or del os.environ[name]
SetEnv ==
  \E name \in EnvNames : \E value \in EnvValues(name) :
    /\ env[name] # value
    /\ env' = [env EXCEPT ![name] = value]
    /\ last' = Idle("setenv", now)
    /\ UNCHANGED << now, cache, cache_timeout, disable_external_ip, threads >>

\* time passes between two operations
Tick ==
  /\ now < MaxTime
  /\ now' = now + 1
  /\ UNCHANGED << env, cache, cache_timeout, disable_external_ip, threads, last >>

\* lines 326-329
ClearCache ==
  /\ cache' = CacheNone
  /\ last' = Idle("clear_cache", now)
  /\ UNCHANGED << env, now, cache_timeout, disable_external_ip, threads >>

GetExternalIpLogged(detailed) ==
  \E p \in get_external_ip(cache, now, cache_timeout, detailed) :
    /\ cache' = p.cache
    /\ last' = Observation("get_external_ip", now, None, None, p.raised, <<>>, TRUE, p)
    /\ UNCHANGED << env, now, cache_timeout, disable_external_ip, threads >>

\* a call whose log keeps only which requests failed
GetExternalIp == GetExternalIpLogged(FALSE)

\* a call whose log keeps how each request failed
GetExternalIpDetailed == GetExternalIpLogged(TRUE)

\* GetExternalHostname with the flag of line 63 read from the environment
\* at each call
GetExternalHostnameRereadsFlag ==
  \E request_host \in RequestHosts : \E override_host \in OverrideHosts :
    \E h \in get_external_hostname(request_host, override_host, env,
                                   DisabledBy(env), cache, now, cache_timeout) :
      /\ cache' = h.p.cache
      /\ last' = Observation("get_external_hostname", now, request_host, override_host,
                             h.raised, h.result, h.probed, h.p)
      /\ UNCHANGED << env, now, cache_timeout, disable_external_ip, threads >>

\* GetExternalHostname on a resolver that keeps the host variables as they
\* were when it was constructed in an environment without them
GetExternalHostnameEnvAtConstruction ==
  \E request_host \in RequestHosts : \E override_host \in OverrideHosts :
    \E h \in get_external_hostname(request_host, override_host, [n \in EnvNames |-> None],
                                   disable_external_ip, cache, now, cache_timeout) :
      /\ cache' = h.p.cache
      /\ last' = Observation("get_external_hostname", now, request_host, override_host,
                             h.raised, h.result, h.probed, h.p)
      /\ UNCHANGED << env, now, cache_timeout, disable_external_ip, threads >>

GetExternalHostname ==
  \E request_host \in RequestHosts : \E override_host \in OverrideHosts :
    \E h \in get_external_hostname(request_host, override_host, env,
                                   disable_external_ip, cache, now, cache_timeout) :
      /\ cache' = h.p.cache
      /\ last' = Observation("get_external_hostname", now, request_host, override_host,
                             h.raised, h.result, h.probed, h.p)
      /\ UNCHANGED << env, now, cache_timeout, disable_external_ip, threads >>

\* the resolver as its callers use it, all calls within one unit of the
\* clock: a timeout of 0 makes every entry of the slot stale
Next == SetEnv \/ ClearCache \/ GetExternalIp \/ GetExternalHostname

Spec == Init /\ [][Next]_vars

\* the slot as the tests leave it by assigning to _external_ip_cache: an
\* empty dict, {'ip': None}, {'timestamp': None}, {'ip': '', 'timestamp': now},
\* {'ip': 'invalid', 'timestamp': 'invalid'}
InjectedCaches(t) ==
  {CacheDict(NoKey, NoTimestamp, ""),
   CacheDict(Key(None), NoTimestamp, ""),
   CacheDict(NoKey, [k |-> "none", t |-> 0], ""),
   CacheDict(Key(Some(sEmpty)), Datetime(t), ""),
   CacheDict(Key(Some(sInvalid)), [k |-> "str", t |-> 0], "")}

InjectCache ==
  \E c \in InjectedCaches(now) :
    /\ cache' = c
    /\ last' = Idle("inject_cache", now)
    /\ UNCHANGED << env, now, cache_timeout, disable_external_ip, threads >>

\* the resolver with a slot that was written from outside
NextInjected == Next \/ InjectCache

SpecInjected == Init /\ [][NextInjected]_vars

\* the prober alone, with the clock running and the environment left unset
InitProbe == Init /\ env = [n \in EnvNames |-> None]

NextProbe == Tick \/ ClearCache \/ GetExternalIp

SpecProbe == InitProbe /\ [][NextProbe]_vars

\* the prober's loop over the services, with how each request failed
NextLoop == ClearCache \/ GetExternalIpDetailed

SpecLoop == InitProbe /\ [][NextLoop]_vars

\* a resolver constructed while no variable is set, and the environment
\* changing between its calls
NextEnv == SetEnv \/ ClearCache \/ GetExternalHostname

SpecEnv == InitProbe /\ [][NextEnv]_vars

(***************************************************************************)
(* Several threads on one resolver, without a lock: each may call          *)
(* clear_cache and then calls get_external_ip, whose reads and writes of   *)
(* the slot are separate steps (lines 251, 252-253, 255 and 279-283).  No  *)
(* step of a thread is an operation of its own, so last stays as it is.    *)
(***************************************************************************)
\* the thread's state after its call has ended
ThreadDone(th, returned, raised) ==
  ThreadState("done", th.cleared, th.log, th.ip, th.service_url, returned, raised)

ThreadAt(th, pc) ==
  ThreadState(pc, th.cleared, th.log, th.ip, th.service_url, th.returned, th.raised)

\* lines 326-329, as the first call of a thread
ThreadClearCache(t) ==
  /\ threads[t].pc = "start"
  /\ cache' = CacheNone
  /\ threads' = [threads EXCEPT ![t] = ThreadState("call", TRUE, <<>>, None, "", None, "")]
  /\ UNCHANGED << env, now, cache_timeout, disable_external_ip, last >>

\* line 251: if self._external_ip_cache
ThreadCheckCache(t) ==
  /\ threads[t].pc \in {"start", "call"}
  /\ threads' = [threads EXCEPT ![t] =
       ThreadAt(threads[t], IF CacheTruthy(cache) THEN "read_timestamp" ELSE "probe")]
  /\ UNCHANGED << env, now, cache, cache_timeout, disable_external_ip, last >>

\* lines 252-253: the slot is read again; None has no get (AttributeError)
ThreadReadTimestamp(t) ==
  /\ threads[t].pc = "read_timestamp"
  /\ threads' = [threads EXCEPT ![t] =
       IF cache.isNone THEN ThreadDone(threads[t], None, "AttributeError")
       ELSE LET look == CacheLookup(cache, now, cache_timeout)
            IN IF look = "raise" THEN ThreadDone(threads[t], None, "TypeError")
               ELSE ThreadAt(threads[t], IF look = "hit" THEN "read_ip" ELSE "probe")]
  /\ UNCHANGED << env, now, cache, cache_timeout, disable_external_ip, last >>

\* lines 254-255: the slot is read a third time
ThreadReadIp(t) ==
  /\ threads[t].pc = "read_ip"
  /\ threads' = [threads EXCEPT ![t] =
       IF cache.isNone THEN ThreadDone(threads[t], None, "AttributeError")
       ELSE ThreadDone(threads[t], CachedIp(cache), "")]
  /\ UNCHANGED << env, now, cache, cache_timeout, disable_external_ip, last >>

\* ThreadProbe with a second look at the slot before the first request: a
\* fresh entry is returned and no request is issued
ThreadProbeRechecks(t) ==
  /\ threads[t].pc = "probe"
  /\ IF CacheLookup(cache, now, cache_timeout) = "hit"
     THEN threads' = [threads EXCEPT ![t] = ThreadDone(threads[t], CachedIp(cache), "")]
     ELSE \E p \in ProbeFrom(1, <<>>, cache, now, FALSE) :
            threads' = [threads EXCEPT ![t] =
              IF Truthy(p.ip)
              THEN ThreadState("fill", threads[t].cleared, p.log, p.ip,
                               p.log[Len(p.log)].service, None, "")
              ELSE ThreadState("done", threads[t].cleared, p.log, None, "", None, "")]
  /\ UNCHANGED << env, now, cache, cache_timeout, disable_external_ip, last >>

\* lines 258-277 and 286-297: the requests of the loop, which read nothing
\* of the resolver; a valid IP is kept in the locals ip and service_url
ThreadProbe(t) ==
  /\ threads[t].pc = "probe"
  /\ \E p \in ProbeFrom(1, <<>>, cache, now, FALSE) :
       threads' = [threads EXCEPT ![t] =
         IF Truthy(p.ip)
         THEN ThreadState("fill", threads[t].cleared, p.log, p.ip,
                          p.log[Len(p.log)].service, None, "")
         ELSE ThreadState("done", threads[t].cleared, p.log, None, "", None, "")]
  /\ UNCHANGED << env, now, cache, cache_timeout, disable_external_ip, last >>

\* lines 279-285: the slot is overwritten and the IP returned
ThreadFillCache(t) ==
  /\ threads[t].pc = "fill"
  /\ cache' = CacheDict(Key(threads[t].ip), Datetime(now), threads[t].service_url)
  /\ threads' = [threads EXCEPT ![t] = ThreadDone(threads[t], threads[t].ip, "")]
  /\ UNCHANGED << env, now, cache_timeout, disable_external_ip, last >>

NextThreads ==
  \E t \in Threads :
    \/ ThreadClearCache(t)
    \/ ThreadCheckCache(t)
    \/ ThreadReadTimestamp(t)
    \/ ThreadReadIp(t)
    \/ ThreadProbe(t)
    \/ ThreadFillCache(t)

SpecThreads == InitProbe /\ [][NextThreads]_vars

(***************************************************************************)
(* The properties.  They read the most recent operation from last; the     *)
(* environment and the resolver's configuration are those of the call,     *)
(* since no operation but SetEnv, which replaces last, changes them.       *)
(***************************************************************************)
IsHostnameCall == last.op = "get_external_hostname"

IsIpCall == last.op = "get_external_ip"

\* the call returned a HostnameResult
Returned == ~last.raised /\ Len(last.result) = 1

Result == last.result[1]

WarningTexts == [i \in DOMAIN Result.warnings |-> Result.warnings[i].text]

NoOverride == ~Truthy(last.override_host)

NoEnvHost == ~Truthy(env["EXTERNAL_HOST"]) /\ ~Truthy(env["SERVER_HOST"])

\* the part of the request host before the first ':'
RequestPart == SubSeq(last.request_host.s, 1,
                      IF \E i \in DOMAIN last.request_host.s : last.request_host.s[i] = ":"
                      THEN (CHOOSE i \in DOMAIN last.request_host.s :
                              /\ last.request_host.s[i] = ":"
                              /\ \A j \in 1..(i - 1) : last.request_host.s[j] # ":") - 1
                      ELSE Len(last.request_host.s))

DetectionMethods == {"override", "env_var", "external_ip", "request_host", "fallback"}

FallbackWarnings ==
  << "Using fallback hostname - QR code may not work for external clients",
     "Consider setting EXTERNAL_HOST environment variable or providing server_host parameter" >>

\* C1: a call with a non-empty override_host returns detection_method
\* 'override' and the override itself, untrimmed, as hostname, whatever the
\* environment, the request host, the probing flag and the slot are.
C1_OverrideWins ==
  (IsHostnameCall /\ Truthy(last.override_host)) =>
     /\ Returned
     /\ Result.detection_method = "override"
     /\ Result.hostname = last.override_host

\* a padded override wins over a set EXTERNAL_HOST, a request host and a
\* filled slot
C1_Witness ==
  /\ IsHostnameCall /\ Returned
  /\ last.override_host = Some(sOvrPadded)
  /\ env["EXTERNAL_HOST"] = Some(sExtHost)
  /\ last.request_host = Some(sReqExample)
  /\ ~cache.isNone
  /\ ~disable_external_ip
  /\ Result.hostname = Some(sOvrPadded)

C3_NeverRaises ==
  IsHostnameCall =>
     /\ Returned
     /\ ~Result.hostname.isNone
     /\ Result.detection_method \in DetectionMethods

\* get_external_ip raised inside the call, and the call returned
C3_Witness ==
  /\ IsHostnameCall /\ Returned
  /\ last.probe_raised
  /\ last.request_host = None
  /\ Result.detection_method = "fallback"

\* a step that is a call of get_external_ip
IpCallStep == last'.op = "get_external_ip" /\ now' = now

\* the slot holds an entry younger than the timeout
SlotFresh ==
  /\ ~cache.isNone
  /\ cache.timestamp.k = "datetime"
  /\ now - cache.timestamp.t < cache_timeout

\* C4: a get_external_ip call issues no request and returns the cached IP
\* when the slot holds an entry younger than the timeout; it issues a
\* request, to the first service, when the slot is empty or its entry has
\* expired; a call that follows, within the timeout, a call that got its
\* IP with one request issues none and returns the same IP.
C4_Caching ==
  [][IpCallStep =>
       /\ SlotFresh => (last'.log = <<>> /\ last'.ip = cache.ip.v /\ cache' = cache)
       /\ ~SlotFresh => (Len(last'.log) >= 1
                         /\ last'.log[1].service = EXTERNAL_IP_SERVICES[1])
       /\ (IsIpCall /\ Len(last.log) = 1 /\ last.log[1].outcome = "ok"
           /\ now - last.at < cache_timeout)
          => (last'.log = <<>> /\ last'.ip = last.ip)]_vars

\* a call one unit after the slot was filled, with a timeout of 2, is
\* answered from the slot
C4_Witness ==
  /\ IsIpCall /\ last.at = now
  /\ last.log = <<>>
  /\ Truthy(last.ip)
  /\ cache_timeout = 2
  /\ cache.timestamp = Datetime(now - 1)

AllFailed(log) == \A i \in DOMAIN log : log[i].outcome # "ok"

\* C5: on a cache miss the services are contacted in the order of
\* EXTERNAL_IP_SERVICES; the call returns the valid IP of the first one
\* that answers with one, contacts no service after it, and leaves that IP
\* with that service's URL and the time of the call in the slot.
C5_FirstValidService ==
  (IsIpCall /\ last.log # <<>>) =>
     LET n == Len(last.log)
     IN /\ n <= Len(EXTERNAL_IP_SERVICES)
        /\ \A i \in 1..n : last.log[i].service = EXTERNAL_IP_SERVICES[i]
        /\ AllFailed(SubSeq(last.log, 1, n - 1))
        /\ last.log[n].outcome = "ok" =>
             /\ Truthy(last.ip)
             /\ is_valid_ip(last.ip)
             /\ last.ip = Some(last.log[n].ip)
             /\ cache = CacheDict(Key(last.ip), Datetime(last.at), last.log[n].service)
        /\ Truthy(last.ip) => last.log[n].outcome = "ok"

\* the first service raises, the second one (httpbin) answers
C5_Witness ==
  /\ IsIpCall
  /\ Len(last.log) = 2
  /\ last.log[1].outcome = "Exception"
  /\ last.log[2].outcome = "ok"
  /\ last.ip = Some(<< "1", ".", "2", ".", "3", ".", "4" >>)
  /\ cache.service = "https://httpbin.org/ip"

\* C6: when probing is enabled, no override and no env host is set and
\* every service fails, the result carries a warning 'External IP
\* detection failed' and a valid, non-localhost request host is returned
\* with detection_method 'request_host'.
C6_ProbeFailureWarning ==
  (/\ IsHostnameCall /\ NoOverride /\ NoEnvHost
   /\ last.probed /\ Len(last.log) = Len(EXTERNAL_IP_SERVICES) /\ AllFailed(last.log))
  => /\ Returned
     /\ \E i \in DOMAIN WarningTexts : WarningTexts[i] = "External IP detection failed: "
     /\ last.request_host = Some(sReqExample) => Result.detection_method = "request_host"

\* C7: get_external_ip returns None, without raising, when every service
\* fails or answers an invalid body, and no failure ends the loop early:
\* after a failed request the next service is tried.
C7_AllFailNone ==
  IsIpCall =>
     /\ ~last.raised
     /\ \A i \in DOMAIN last.log :
          (last.log[i].outcome # "ok" /\ i < Len(EXTERNAL_IP_SERVICES)) => Len(last.log) > i
     /\ (last.log # <<>> /\ AllFailed(last.log)) =>
          (Len(last.log) = Len(EXTERNAL_IP_SERVICES) /\ last.ip = None)

\* the four requests fail in the three ways, and the call returns None
C7_Witness ==
  /\ IsIpCall /\ ~last.raised /\ last.ip = None
  /\ Len(last.log) = 4
  /\ last.log[1].outcome = "RequestException"
  /\ last.log[2].outcome = "invalid_ip"
  /\ last.log[3].outcome = "Exception"
  /\ last.log[4].outcome = "invalid_ip"

\* the request host names no usable host: absent, or its part before the
\* first ':' is localhost or invalid
NoUsableRequestHost ==
  \/ ~Truthy(last.request_host)
  \/ is_localhost_address(Some(RequestPart))
  \/ ~validate_hostname(Some(RequestPart)).valid

\* the warning of tier 3 (get_external_ip raised), then that of tier 4
TierWarnings ==
  (IF last.probe_raised THEN << "External IP detection failed: " >> ELSE <<>>)
  \o (IF ~Truthy(last.request_host) THEN <<>>
      ELSE IF is_localhost_address(Some(RequestPart))
      THEN << "Request host is localhost - not suitable for external clients" >>
      ELSE << "Request host validation failed: " >>)

\* C8: with no override, no env host, no IP from the probe tier and no
\* usable request host, the result is the fallback: the request host's part
\* before ':' (or 'localhost'), is_localhost true, is_external_accessible
\* false, and the warnings of tiers 3 and 4 followed by the two fixed ones.
C8_Fallback ==
  (IsHostnameCall /\ NoOverride /\ NoEnvHost /\ ~Truthy(last.ip) /\ NoUsableRequestHost) =>
     /\ Returned
     /\ Result.detection_method = "fallback"
     /\ Result.hostname = IF Truthy(last.request_host) THEN Some(RequestPart)
                          ELSE Some(sLocalhostLit)
     /\ Result.is_localhost
     /\ ~Result.is_external_accessible
     /\ Len(Result.warnings) >= 2
     /\ WarningTexts = TierWarnings \o FallbackWarnings

\* 'localhost:8080' after get_external_ip raised: four warnings
C8_Witness ==
  /\ IsHostnameCall /\ Returned
  /\ last.request_host = Some(sReqLocalhost)
  /\ last.probe_raised
  /\ Result.detection_method = "fallback"
  /\ Result.hostname = Some(sLocalhostLit)
  /\ Len(Result.warnings) = 4

\* C9: with no override, no env host and no IP from the probe tier, a
\* request host whose part before ':' is valid and not localhost is
\* returned, without its port, with detection_method 'request_host',
\* is_localhost false and is_external_accessible true.
C9_RequestHost ==
  (IsHostnameCall /\ NoOverride /\ NoEnvHost /\ ~Truthy(last.ip) /\ ~NoUsableRequestHost) =>
     /\ Returned
     /\ Result.detection_method = "request_host"
     /\ Result.hostname = Some(RequestPart)
     /\ ~Result.is_localhost
     /\ Result.is_external_accessible

\* 'example.com:8080' after every service failed
C9_Witness ==
  /\ IsHostnameCall /\ Returned
  /\ last.request_host = Some(sReqExample)
  /\ last.probed /\ Len(last.log) = 4
  /\ Result.detection_method = "request_host"
  /\ Result.hostname = Some(<< "e", "x", "a", "m", "p", "l", "e", ".", "c", "o", "m" >>)

\* C10: in every result, is_external_accessible is true only if the
\* hostname is not a localhost address and is syntactically valid.
C10_AccessibleOnlyIfUsable ==
  (IsHostnameCall /\ Returned /\ Result.is_external_accessible) =>
     /\ ~is_localhost_address(Result.hostname)
     /\ validate_hostname(Result.hostname).valid

(***************************************************************************)
(* QRValidationUtils.validate_itak_qr_format (tests/qr_validation_utils.py) *)
(* with the library functions it calls, computed on the characters:        *)
(* urllib.parse.urlparse and parse_qs, socket.inet_aton, re.match.         *)
(***************************************************************************)
\* self.required_params: 'host', 'username', 'token'
required_params ==
  << << "h", "o", "s", "t" >>,
     << "u", "s", "e", "r", "n", "a", "m", "e" >>,
     << "t", "o", "k", "e", "n" >> >>

\* itak_url_pattern.match(qr_string): the prefix in any letter case, then
\* .* (no newline) up to $
itak_url_pattern(qr_string) ==
  LET \* 'tak://com.atakmap.app/enroll?'
      prefix == << "t", "a", "k", ":", "/", "/", "c", "o", "m", ".", "a", "t", "a", "k", "m", "a", "p", ".", "a", "p", "p", "/", "e", "n", "r", "o", "l", "l", "?" >>
  IN /\ Len(qr_string) >= Len(prefix)
     /\ Lower(SubSeq(qr_string, 1, Len(prefix))) = prefix
     /\ \E x \in BeforeDollar(SubSeq(qr_string, Len(prefix) + 1, Len(qr_string))) :
          \A i \in DOMAIN x : x[i] # "\n"

\* the index of the first character of s that is in chars, 0 when none is
FirstIndexIn(s, chars) ==
  LET hits == {i \in DOMAIN s : s[i] \in chars}
  IN IF hits = {} THEN 0 ELSE CHOOSE i \in hits : \A j \in hits : i <= j

\* urlparse(qr_string) for a string that starts with a scheme and ':' (the
\* pattern was matched before): tab, carriage return and newline removed
\* from the URL, scheme lower-cased, netloc up to the first
\* of / ? #, the fragment cut at the first #, the query at the first ?
urlparse(qr_string) ==
  LET url == SelectSeq(qr_string, LAMBDA c : c \notin {"\t", "\r", "\n"})
      colon == FirstIndex(url, ":")
      rest == SubSeq(url, colon + 1, Len(url))
      hasNetloc == Len(rest) >= 2 /\ SubSeq(rest, 1, 2) = << "/", "/" >>
      afterSlashes == SubSeq(rest, 3, Len(rest))
      delim == FirstIndexIn(afterSlashes, {"/", "?", "#"})
      netloc == IF ~hasNetloc THEN <<>>
                ELSE IF delim = 0 THEN afterSlashes
                ELSE SubSeq(afterSlashes, 1, delim - 1)
      pathEtc == IF ~hasNetloc THEN rest
                 ELSE IF delim = 0 THEN <<>>
                 ELSE SubSeq(afterSlashes, delim, Len(afterSlashes))
      hash == FirstIndex(pathEtc, "#")
      noFragment == IF hash = 0 THEN pathEtc ELSE SubSeq(pathEtc, 1, hash - 1)
      mark == FirstIndex(noFragment, "?")
  IN [scheme |-> Lower(SubSeq(url, 1, colon - 1)),
      netloc |-> netloc,
      path |-> IF mark = 0 THEN noFragment ELSE SubSeq(noFragment, 1, mark - 1),
      query |-> IF mark = 0 THEN <<>> ELSE SubSeq(noFragment, mark + 1, Len(noFragment))]

HexDigits == Digits \cup {"a", "b", "c", "d", "e", "f", "A", "B", "C", "D", "E", "F"}

\* the value of a hex digit
HexValue(c) ==
  LET hex == << "0", "1", "2", "3", "4", "5", "6", "7", "8", "9", "a", "b", "c", "d", "e", "f" >>
  IN (CHOOSE i \in DOMAIN hex : hex[i] = LowerChar(c)) - 1

\* the character of a decoded %XX, with names for the characters that have
\* no notation here: NUL, CTL for the other control characters but tab,
\* newline and carriage return, and U+FFFD for a byte above 127 (which is
\* decoded with errors='replace')
Chr(v) ==
  LET \* the characters with the codes 32..126 (the grave accent, code 96, by name)
      printable ==
      << " ", "!", "\"", "#", "$", "%", "&", "'", "(", ")", "*", "+", ",", "-", ".", "/",
         "0", "1", "2", "3", "4", "5", "6", "7", "8", "9", ":", ";", "<", "=", ">", "?",
         "@", "A", "B", "C", "D", "E", "F", "G", "H", "I", "J", "K", "L", "M", "N", "O",
         "P", "Q", "R", "S", "T", "U", "V", "W", "X", "Y", "Z", "[", "\\", "]", "^", "_",
         "GRAVE", "a", "b", "c", "d", "e", "f", "g", "h", "i", "j", "k", "l", "m", "n", "o",
         "p", "q", "r", "s", "t", "u", "v", "w", "x", "y", "z", "{", "|", "}", "~" >>
  IN
  IF v = 0 THEN "NUL"
  ELSE IF v = 9 THEN "\t"
  ELSE IF v = 10 THEN "\n"
  ELSE IF v = 13 THEN "\r"
  ELSE IF v >= 32 /\ v <= 126 THEN printable[v - 31]
  ELSE IF v < 128 THEN "CTL"
  ELSE "U+FFFD"

\* unquote on the pieces that follow a '%': two hex digits are decoded, any
\* other '%' stays
RECURSIVE UnquoteParts(_)
UnquoteParts(parts) ==
  IF parts = <<>> THEN <<>>
  ELSE LET part == Head(parts)
       IN (IF Len(part) >= 2 /\ part[1] \in HexDigits /\ part[2] \in HexDigits
           THEN << Chr(16 * HexValue(part[1]) + HexValue(part[2])) >> \o SubSeq(part, 3, Len(part))
           ELSE << "%" >> \o part)
          \o UnquoteParts(Tail(parts))

\* urllib.parse.unquote
unquote(s) ==
  LET parts == Split(s, "%")
  IN parts[1] \o UnquoteParts(Tail(parts))

\* parse_qsl on the pieces between '&': a piece that is empty, has no '=' or
\* has nothing after its first '=' is dropped (keep_blank_values=False);
\* in a name and in a value '+' becomes a space before unquote
RECURSIVE ParsePairs(_)
ParsePairs(pairs) ==
  IF pairs = <<>> THEN <<>>
  ELSE LET name_value == Head(pairs)
           spaced == [i \in DOMAIN name_value |-> IF name_value[i] = "+" THEN " " ELSE name_value[i]]
           eq == FirstIndex(name_value, "=")
       IN (IF eq = 0 \/ eq = Len(name_value) THEN <<>>
           ELSE << [name |-> unquote(SubSeq(spaced, 1, eq - 1)),
                    value |-> unquote(SubSeq(spaced, eq + 1, Len(spaced)))] >>)
          \o ParsePairs(Tail(pairs))

\* parse_qs(query), as the (name, value) pairs in their order
parse_qs(query) == ParsePairs(Split(query, "&"))

\* params[name], <<>> when name is no key of params
ParamValues(params, name) ==
  LET at == SelectSeq([i \in DOMAIN params |-> i], LAMBDA i : params[i].name = name)
  IN [k \in DOMAIN at |-> params[at[k]].value]

\* strtoul(s, &endp, 0) for s that starts with a digit, as two 16-bit
\* halves hi * 65536 + lo; hi = 65536 stands for every value above 32 bits
RECURSIVE StrtoulValue(_, _)
StrtoulValue(digits, base) ==
  IF digits = <<>> THEN [hi |-> 0, lo |-> 0]
  ELSE LET v == StrtoulValue(Front(digits), base)
           low == v.lo * base + HexValue(digits[Len(digits)])
           high == v.hi * base + (low \div 65536)
       IN [hi |-> IF high > 65536 THEN 65536 ELSE high, lo |-> low % 65536]

\* the number at the start of s and how many characters it takes: 0x and
\* hex digits, 0 and octal digits, or decimal digits
Strtoul(s) ==
  LET hex == Len(s) >= 3 /\ s[1] = "0" /\ s[2] \in {"x", "X"} /\ s[3] \in HexDigits
      base == IF hex THEN 16 ELSE IF s[1] = "0" THEN 8 ELSE 10
      start == IF hex THEN 3 ELSE 1
      digitsOf == IF hex THEN HexDigits
                  ELSE IF s[1] = "0" THEN {"0", "1", "2", "3", "4", "5", "6", "7"}
                  ELSE Digits
      stop == FirstIndexIn(SubSeq(s, start, Len(s)), {s[i] : i \in DOMAIN s} \ digitsOf)
      end == IF stop = 0 THEN Len(s) ELSE start + stop - 2
  IN [value |-> StrtoulValue(SubSeq(s, start, end), base), length |-> end]

\* the C library's inet_aton from the part with index n on (n parts were
\* stored): numbers separated by dots, at most four, each but the last at
\* most 255, the last one filling the bytes that remain; after the last
\* number the string ends or a space follows
RECURSIVE InetAtonFrom(_, _)
InetAtonFrom(s, n) ==
  IF s = <<>> \/ s[1] \notin Digits THEN FALSE
  ELSE LET num == Strtoul(s)
           val == num.value
           rest == SubSeq(s, num.length + 1, Len(s))
       IN IF val.hi > 65535 THEN FALSE
          ELSE IF rest # <<>> /\ rest[1] = "."
            THEN n < 3 /\ val.hi = 0 /\ val.lo <= 255 /\ InetAtonFrom(Tail(rest), n + 1)
          ELSE /\ rest = <<>> \/ rest[1] \in Whitespace
               /\ CASE n = 0 -> TRUE
                    [] n = 1 -> val.hi <= 255
                    [] n = 2 -> val.hi = 0
                    [] OTHER -> val.hi = 0 /\ val.lo <= 255

\* socket.inet_aton(hostname): "ok", OSError, or ValueError for a str with
\* an embedded null character
inet_aton(hostname) ==
  IF \E i \in DOMAIN hostname : hostname[i] = "NUL" THEN "ValueError"
  ELSE IF InetAtonFrom(hostname, 0) THEN "ok"
  ELSE "OSError"

\* hostname_pattern as a full match: labels of 1 to 63 letters, digits and
\* hyphens, no hyphen first or last, separated by dots
FullHostnamePattern(s) ==
  LET labels == Split(s, ".")
  IN \A i \in DOMAIN labels :
       /\ Len(labels[i]) >= 1 /\ Len(labels[i]) <= 63
       /\ AllIn(labels[i], LabelChars)
       /\ labels[i][1] # "-" /\ labels[i][Len(labels[i])] # "-"

\* lines 349-378: "True", "False", or the ValueError of inet_aton, which
\* the except clause of line 366 does not catch
is_valid_hostname_format(hostname) ==
  IF hostname = <<>> THEN "False"
  ELSE LET aton == inet_aton(hostname)
       IN IF aton = "ValueError" THEN "ValueError"
          ELSE IF aton = "ok" THEN "True"
          ELSE IF Len(hostname) > 253 THEN "False"
          ELSE IF \E x \in BeforeDollar(hostname) : FullHostnamePattern(x) THEN "True"
          ELSE "False"

MaxQrLength == 2048

LongQrLength == 1024

QrError(text, detail) == [text |-> text, detail |-> detail]

\* the details dict: its keys, and the values of 'host' and 'length'
QrDetails(keys, host, length) == [keys |-> keys, host |-> host, length |-> length]

\* the returned tuple (is_valid, errors, details)
QrResult(valid, errors, details) == [valid |-> valid, errors |-> errors, details |-> details]

\* LengthPolicy with the limits themselves counted as beyond
LengthPolicyInclusive(qr_length) ==
  [error |-> qr_length >= MaxQrLength,
   warning |-> ~(qr_length >= MaxQrLength) /\ qr_length >= LongQrLength]

\* lines 136-139
LengthPolicy(qr_length) ==
  [error |-> qr_length > MaxQrLength,
   warning |-> ~(qr_length > MaxQrLength) /\ qr_length > LongQrLength]

\* IsValid with a result that a warning detail makes invalid
IsValidWithoutWarnings(errors, details) ==
  Len(errors) = 0 /\ details.keys \cap {"localhost_warning", "length_warning"} = {}

\* line 145
IsValid(errors, details) == Len(errors) = 0

\* lines 113-117: the errors of the loop over required_params from index i
RECURSIVE RequiredParamErrors(_, _)
RequiredParamErrors(params, i) ==
  IF i > Len(required_params) THEN <<>>
  ELSE LET param == required_params[i]
           values == ParamValues(params, param)
       IN (IF values = <<>> THEN << QrError("Missing required parameter: ", param) >>
           ELSE IF values[1] = <<>> THEN << QrError("Empty parameter: ", param) >>
           ELSE <<>>)
          \o RequiredParamErrors(params, i + 1)

\* lines 62-146, for None or a str
validate_itak_qr_format(qr_string) ==
  IF ~Truthy(qr_string)
  THEN QrResult(FALSE, << QrError("QR string is empty", <<>>) >>, QrDetails({}, <<>>, 0))
  ELSE IF ~itak_url_pattern(qr_string.s)
  THEN QrResult(FALSE,
         << QrError("Invalid iTAK URL scheme. Must start with 'tak://com.atakmap.app/enroll?'", <<>>) >>,
         QrDetails({}, <<>>, 0))
  ELSE
    LET parsed == urlparse(qr_string.s)
        keys0 == {"scheme", "netloc", "path", "query"}
        errors0 ==
          (IF parsed.scheme # << "t", "a", "k" >> THEN << QrError("Invalid scheme: ", parsed.scheme) >> ELSE <<>>)
          \o (IF Lower(parsed.netloc) # << "c", "o", "m", ".", "a", "t", "a", "k", "m", "a", "p", ".", "a", "p", "p" >> THEN << QrError("Invalid netloc: ", parsed.netloc) >> ELSE <<>>)
          \o (IF parsed.path # << "/", "e", "n", "r", "o", "l", "l" >> THEN << QrError("Invalid path: ", parsed.path) >> ELSE <<>>)
    IN IF parsed.query = <<>>
       THEN QrResult(FALSE, Append(errors0, QrError("Missing query parameters", <<>>)),
                     QrDetails(keys0, <<>>, 0))
       ELSE
         LET params == parse_qs(parsed.query)
             keys1 == keys0 \cup {"parameters"}
             errors1 == errors0 \o RequiredParamErrors(params, 1)
             hosts == ParamValues(params, << "h", "o", "s", "t" >>)
             hasHost == hosts # <<>>
             host == IF hasHost THEN hosts[1] ELSE <<>>
             \* 'localhost', '127.0.0.1', '::1'
             localhost_names ==
               {<< "l", "o", "c", "a", "l", "h", "o", "s", "t" >>,
                << "1", "2", "7", ".", "0", ".", "0", ".", "1" >>,
                << ":", ":", "1" >>}
             keys2 == keys1 \cup (IF hasHost THEN {"host"} ELSE {})
                            \cup (IF hasHost /\ Lower(host) \in localhost_names
                                  THEN {"localhost_warning"} ELSE {})
             format == IF hasHost THEN is_valid_hostname_format(host) ELSE "True"
             errors2 == errors1 \o (IF format = "False"
                                    THEN << QrError("Invalid hostname format: ", host) >> ELSE <<>>)
             qr_length == Len(qr_string.s)
             policy == LengthPolicy(qr_length)
             errors3 == errors2 \o (IF policy.error
                                    THEN << QrError("QR string too long: ", <<>>) >> ELSE <<>>)
             details == QrDetails(keys2 \cup {"length"}
                                        \cup (IF policy.warning THEN {"length_warning"} ELSE {}),
                                  host, qr_length)
         IN IF format = "ValueError"
            THEN QrResult(FALSE, Append(errors1, QrError("URL parsing error: ", <<>>)),
                          QrDetails(keys2, host, 0))
            ELSE QrResult(IsValid(errors3, details), errors3, details)

(***************************************************************************)
(* The two classifiers on their own: a candidate is drawn, and             *)
(* is_localhost_address and validate_hostname are applied to it.           *)
(***************************************************************************)
\* c * n
Rep(c, n) == [i \in 1..n |-> c]

\* the candidates without their surrounding whitespace
HostnameCores ==
  {<<>>,
   \* 'localhost'
   << "l", "o", "c", "a", "l", "h", "o", "s", "t" >>,
   \* 'LocalHost'
   << "L", "o", "c", "a", "l", "H", "o", "s", "t" >>,
   \* 'mylocalhost'
   << "m", "y", "l", "o", "c", "a", "l", "h", "o", "s", "t" >>,
   \* 'localhost.example.com'
   << "l", "o", "c", "a", "l", "h", "o", "s", "t", ".", "e", "x", "a", "m", "p", "l", "e", ".", "c", "o", "m" >>,
   \* '127.0.0.1'
   << "1", "2", "7", ".", "0", ".", "0", ".", "1" >>,
   \* '127.255.255.255'
   << "1", "2", "7", ".", "2", "5", "5", ".", "2", "5", "5", ".", "2", "5", "5" >>,
   \* '127.0.0.999'
   << "1", "2", "7", ".", "0", ".", "0", ".", "9", "9", "9" >>,
   \* '127.0.0'
   << "1", "2", "7", ".", "0", ".", "0" >>,
   \* '127..0.1'
   << "1", "2", "7", ".", ".", "0", ".", "1" >>,
   \* '128.0.0.1'
   << "1", "2", "8", ".", "0", ".", "0", ".", "1" >>,
   \* '256.1.1.1'
   << "2", "5", "6", ".", "1", ".", "1", ".", "1" >>,
   \* '192.168.001.1'
   << "1", "9", "2", ".", "1", "6", "8", ".", "0", "0", "1", ".", "1" >>,
   \* '::1'
   << ":", ":", "1" >>,
   \* '0.0.0.0'
   << "0", ".", "0", ".", "0", ".", "0" >>,
   \* 'example.com'
   << "e", "x", "a", "m", "p", "l", "e", ".", "c", "o", "m" >>,
   \* 'a..b'
   << "a", ".", ".", "b" >>,
   \* '-a.b'
   << "-", "a", ".", "b" >>,
   \* 'a-.b'
   << "a", "-", ".", "b" >>,
   \* 'a b'
   << "a", " ", "b" >>,
   \* 'a' * 63, 'a' * 64, 'a' * 64 + '.b'
   Rep("a", MaxLabelLen), Rep("a", MaxLabelLen + 1), Rep("a", MaxLabelLen + 1) \o << ".", "b" >>,
   \* 'a' * 253, 'a' * 254, 'a' * 253 + '!'
   Rep("a", MaxHostnameLen), Rep("a", MaxHostnameLen + 1), Rep("a", MaxHostnameLen) \o << "!" >>}

\* the arguments: None and the padded candidates
Hostnames ==
  LET \* what a caller may leave in front of a candidate, and after it
      prefixes == {<<>>, << " " >>, << "\t", " " >>}
      suffixes == {<<>>, << " " >>, << "\n" >>, << "." >>}
  IN {None} \cup {Some(p \o c \o x) : p \in prefixes, c \in HostnameCores, x \in suffixes}

\* last is the candidate that is about to be classified, and after a call
\* the classifier, the candidate and what was returned
InitHostname ==
  /\ env = [n \in EnvNames |-> None]
  /\ now = 0
  /\ cache = CacheNone
  /\ cache_timeout = DefaultCacheTimeout
  /\ disable_external_ip = FALSE
  /\ threads = [t \in Threads |-> ThreadStart]
  /\ last \in {[op |-> "argument", hostname |-> h] : h \in Hostnames}

IsLocalhostAddress ==
  /\ last' = [op |-> "is_localhost_address", hostname |-> last.hostname,
               returned |-> is_localhost_address(last.hostname)]
  /\ UNCHANGED << env, now, cache, cache_timeout, disable_external_ip, threads >>

ValidateHostname ==
  /\ last' = [op |-> "validate_hostname", hostname |-> last.hostname,
               returned |-> validate_hostname(last.hostname)]
  /\ UNCHANGED << env, now, cache, cache_timeout, disable_external_ip, threads >>

NextHostname == IsLocalhostAddress \/ ValidateHostname

SpecHostname == InitHostname /\ [][NextHostname]_vars

\* 127.x.x.x with each x a non-empty run of digits: the dots at position 4
\* and at two later positions i < j, digits everywhere else
Is127Form(s) ==
  /\ Len(s) >= 9
  /\ SubSeq(s, 1, 4) = << "1", "2", "7", "." >>
  /\ \E i, j \in 6..(Len(s) - 1) :
       /\ i + 1 < j
       /\ \A k \in 5..Len(s) : IF k \in {i, j} THEN s[k] = "." ELSE s[k] \in Digits

\* C11: is_localhost_address returns true for None, for '' and for every
\* string that, lower-cased and with surrounding whitespace removed, is
\* 'localhost', '::1', '0.0.0.0' or 127.x.x.x (each x a run of digits), and
\* false for every other string.
C11_LocalhostClassifier ==
  last.op = "is_localhost_address" =>
     last.returned =
       (\/ ~Truthy(last.hostname)
        \/ LET n == Strip(Lower(last.hostname.s))
           IN \/ n \in {sLocalhostLit, << ":", ":", "1" >>, << "0", ".", "0", ".", "0", ".", "0" >>}
              \/ Is127Form(n))

\* '\t LocalHost\n' is localhost
C11_Witness ==
  /\ last.op = "is_localhost_address"
  /\ last.hostname = Some(<< "\t", " ", "L", "o", "c", "a", "l", "H", "o", "s", "t", "\n" >>)
  /\ last.returned

\* the fields of a dotted-quad numeric string (four runs of digits), <<>>
\* for any other string
QuadFields(s) ==
  LET parts == Split(s, ".")
  IN IF Len(parts) = 4 /\ \A i \in 1..4 : parts[i] # <<>> /\ AllIn(parts[i], Digits)
     THEN parts ELSE <<>>

\* the rules on the labels of a domain name
LabelsWellFormed(s) ==
  LET labels == Split(s, ".")
  IN \A i \in DOMAIN labels :
       /\ labels[i] # <<>>
       /\ Len(labels[i]) <= 63
       /\ AllIn(labels[i], LabelChars)
       /\ labels[i][1] # "-" /\ labels[i][Len(labels[i])] # "-"

\* the first rule that a non-empty candidate s breaks, "" when it breaks
\* none
FirstFailure(s) ==
  IF Len(s) > 253 THEN "too long"
  ELSE IF s = <<>> \/ \E i \in DOMAIN s : s[i] \notin HostChars THEN "invalid characters"
  ELSE IF QuadFields(s) # <<>>
    THEN IF \E i \in 1..4 : IntCapped(QuadFields(s)[i]) > 255 THEN "Invalid IP address format"
         ELSE ""
  ELSE IF (\E i \in DOMAIN s : s[i] = ".") /\ ~LabelsWellFormed(s) THEN "label"
  ELSE ""

LabelReasons ==
  {"Empty label in hostname", "Label too long in hostname (max 63 characters)",
   "Invalid characters in hostname label", "Hostname label cannot start or end with hyphen"}

\* validate_hostname reported the first rule that s breaks
ReportsFirstFailure(s) ==
  LET r == FirstFailure(s)
      v == last.returned
  IN /\ v.valid = (r = "")
     /\ r = "" => v.msg = ""
     /\ r = "too long" => v.msg = "Hostname too long (max 253 characters)"
     /\ r = "invalid characters" => v.msg = "Hostname contains invalid characters"
     /\ r = "Invalid IP address format" => v.msg = "Invalid IP address format"
     /\ r = "label" => v.msg \in LabelReasons

HostnameCallStep == last'.op = "get_external_hostname"

\* C16: on a resolver constructed with QR_DISABLE_EXTERNAL_IP equal to
\* 'true' in any letter case, no get_external_hostname call issues a
\* request, changes the slot or returns detection_method 'external_ip',
\* whatever the slot holds and whatever the variable is at the call.
C16_DisabledNeverProbes ==
  [][(HostnameCallStep /\ disable_external_ip) =>
       /\ ~last'.probed
       /\ last'.log = <<>>
       /\ cache' = cache
       /\ \A i \in DOMAIN last'.result : last'.result[i].detection_method # "external_ip"]_vars

\* constructed with 'True', the variable unset since, an entry in the slot
\* that a direct get_external_ip call left: the request host is returned
C16_Witness ==
  /\ IsHostnameCall /\ Returned /\ NoOverride /\ NoEnvHost
  /\ disable_external_ip
  /\ env["QR_DISABLE_EXTERNAL_IP"] = None
  /\ SlotFresh
  /\ ~last.probed
  /\ Result.detection_method = "request_host"

\* C18: an EXTERNAL_HOST that is empty or only whitespace is ignored, so
\* that a call without override returns 'env_var' only for a SERVER_HOST;
\* an EXTERNAL_HOST that is non-empty after trimming is returned verbatim
\* with detection_method 'env_var'.
C18_BlankExternalHostIgnored ==
  (IsHostnameCall /\ NoOverride /\ ~env["EXTERNAL_HOST"].isNone) =>
     /\ Returned
     /\ IF Strip(env["EXTERNAL_HOST"].s) = <<>>
        THEN Result.detection_method = "env_var" =>
               (Truthy(env["SERVER_HOST"]) /\ Result.hostname = env["SERVER_HOST"])
        ELSE Result.detection_method = "env_var" /\ Result.hostname = env["EXTERNAL_HOST"]

\* the slot holds an entry whose age is the timeout or more
SlotExpired ==
  /\ ~cache.isNone
  /\ cache.timestamp.k = "datetime"
  /\ now - cache.timestamp.t >= cache_timeout

\* C20: a get_external_ip call on an entry whose age equals the timeout,
\* or exceeds it, is not answered from the slot but issues a request; with
\* a timeout of 0 every call issues a request.
C20_ExpiredAtTtl ==
  [][IpCallStep =>
       /\ SlotExpired => last'.log # <<>>
       /\ cache_timeout = 0 => last'.log # <<>>]_vars

\* a call on an entry that is exactly as old as the timeout of 2: the
\* services were asked, all failed, and the entry stayed
C20_Witness ==
  /\ IsIpCall /\ last.at = now
  /\ cache_timeout = 2
  /\ cache.timestamp = Datetime(now - 2)
  /\ last.log # <<>>
  /\ last.ip = None

\* '1.2.3.4'
TheIp == Some(<< "1", ".", "2", ".", "3", ".", "4" >>)

\* every request issued so far was answered with TheIp
AllAnswersTheIp ==
  \A t \in Threads : \A i \in DOMAIN threads[t].log :
    threads[t].log[i].outcome = "ok" /\ Some(threads[t].log[i].ip) = TheIp

\* C17: when every thread calls clear_cache and then get_external_ip, and
\* every service answers the same valid IP, no call raises and every call
\* returns that IP, under every interleaving.
C17_ClearAndGetNeverRaise ==
  (/\ AllAnswersTheIp
   /\ \A t \in Threads : threads[t].pc # "start" => threads[t].cleared)
  => \A t \in Threads :
       threads[t].pc = "done" => (threads[t].raised = "" /\ threads[t].returned = TheIp)

\* the entry a thread writes at line 279
EntryOf(t) == CacheDict(Key(threads[t].ip), Datetime(now), threads[t].service_url)

\* C19: the check and the fill of the slot are not one atomic step: a call
\* that found the slot empty or expired issues its requests whatever the
\* slot has become since, and its fill overwrites the slot, so that two
\* calls can both pass the check before either fills, both issue requests,
\* and the slot holds the entry written last.
C19_CheckThenFillNotAtomic ==
  [][\A t \in Threads :
       /\ (threads[t].pc = "probe" /\ threads'[t].pc # "probe") => threads'[t].log # <<>>
       /\ (threads[t].pc = "fill" /\ threads'[t].pc = "done") =>
            (cache' = EntryOf(t) /\ threads'[t].returned = threads[t].ip)]_vars

\* no thread cleared the slot and entries stay fresh for 300 s, so a call
\* misses only before the first fill: t1 and t2 both issued requests, then
\* t1 filled the slot and t2 overwrote it with its own, different entry
C19_Witness ==
  /\ cache_timeout = DefaultCacheTimeout
  /\ \A t \in Threads : ~threads[t].cleared
  /\ threads["t1"].pc = "done" /\ threads["t2"].pc = "done" /\ threads["t3"].pc = "start"
  /\ threads["t1"].log # <<>> /\ threads["t2"].log # <<>>
  /\ Truthy(threads["t1"].returned) /\ Truthy(threads["t2"].returned)
  /\ cache = EntryOf("t2")
  /\ cache # EntryOf("t1")

(***************************************************************************)
(* The QR validator on its own: a QR string is drawn and                   *)
(* validate_itak_qr_format is applied to it.                               *)
(***************************************************************************)
\* what a QR string starts with: the prefix, in upper case, with another scheme, without its question mark
QrHeads ==
  {\* 'tak://com.atakmap.app/enroll?'
   << "t", "a", "k", ":", "/", "/", "c", "o", "m", ".", "a", "t", "a", "k", "m", "a", "p", ".", "a", "p", "p", "/", "e", "n", "r", "o", "l", "l", "?" >>,
   \* 'TAK://COM.ATAKMAP.APP/ENROLL?'
   << "T", "A", "K", ":", "/", "/", "C", "O", "M", ".", "A", "T", "A", "K", "M", "A", "P", ".", "A", "P", "P", "/", "E", "N", "R", "O", "L", "L", "?" >>,
   \* 'http://com.atakmap.app/enroll?'
   << "h", "t", "t", "p", ":", "/", "/", "c", "o", "m", ".", "a", "t", "a", "k", "m", "a", "p", ".", "a", "p", "p", "/", "e", "n", "r", "o", "l", "l", "?" >>,
   \* 'tak://com.atakmap.app/enroll'
   << "t", "a", "k", ":", "/", "/", "c", "o", "m", ".", "a", "t", "a", "k", "m", "a", "p", ".", "a", "p", "p", "/", "e", "n", "r", "o", "l", "l" >>}

\* the host parameter: absent, empty, a name, localhost, a number out of range, a hyphen first, an escaped NUL, a space
QrHostParts ==
  {\* ''
   <<>>,
   \* 'host=&'
   << "h", "o", "s", "t", "=", "&" >>,
   \* 'host=example.com&'
   << "h", "o", "s", "t", "=", "e", "x", "a", "m", "p", "l", "e", ".", "c", "o", "m", "&" >>,
   \* 'host=LocalHost&'
   << "h", "o", "s", "t", "=", "L", "o", "c", "a", "l", "H", "o", "s", "t", "&" >>,
   \* 'host=256.1.1.1&'
   << "h", "o", "s", "t", "=", "2", "5", "6", ".", "1", ".", "1", ".", "1", "&" >>,
   \* 'host=-a&'
   << "h", "o", "s", "t", "=", "-", "a", "&" >>,
   \* 'host=%00&'
   << "h", "o", "s", "t", "=", "%", "0", "0", "&" >>,
   \* 'host=a+b&'
   << "h", "o", "s", "t", "=", "a", "+", "b", "&" >>}

\* the username parameter: absent, empty, given
QrUsernameParts ==
  {\* ''
   <<>>,
   \* 'username=&'
   << "u", "s", "e", "r", "n", "a", "m", "e", "=", "&" >>,
   \* 'username=user&'
   << "u", "s", "e", "r", "n", "a", "m", "e", "=", "u", "s", "e", "r", "&" >>}

\* the token parameter: absent, empty, given, given after a # only
QrTokenParts ==
  {\* ''
   <<>>,
   \* 'token='
   << "t", "o", "k", "e", "n", "=" >>,
   \* 'token=pass'
   << "t", "o", "k", "e", "n", "=", "p", "a", "s", "s" >>,
   \* '#token=pass'
   << "#", "t", "o", "k", "e", "n", "=", "p", "a", "s", "s" >>}

\* the lengths a QR string is filled up to with the letter t (0: not at
\* all): the two limits and one more than each
QrLengths == {0, LongQrLength, LongQrLength + 1, MaxQrLength, MaxQrLength + 1}

\* the arguments: None, '' and the composed strings
QrStrings ==
  {None, Some(<<>>)} \cup
  {Some(LET s == head \o host \o username \o token
        IN IF Len(s) >= length THEN s ELSE s \o Rep("t", length - Len(s))) :
     head \in QrHeads, host \in QrHostParts, username \in QrUsernameParts,
     token \in QrTokenParts, length \in QrLengths}

\* last is the QR string that is about to be validated, and after the call
\* the string with what validate_itak_qr_format returned
InitQr ==
  /\ env = [n \in EnvNames |-> None]
  /\ now = 0
  /\ cache = CacheNone
  /\ cache_timeout = DefaultCacheTimeout
  /\ disable_external_ip = FALSE
  /\ threads = [t \in Threads |-> ThreadStart]
  /\ last \in {[op |-> "argument", qr_string |-> q] : q \in QrStrings}

ValidateItakQrFormat ==
  /\ last.op = "argument"
  /\ last' = [op |-> "validate_itak_qr_format", qr_string |-> last.qr_string,
               returned |-> validate_itak_qr_format(last.qr_string)]
  /\ UNCHANGED << env, now, cache, cache_timeout, disable_external_ip, threads >>

NextQr == ValidateItakQrFormat

SpecQr == InitQr /\ [][NextQr]_vars

IsQrCall == last.op = "validate_itak_qr_format"

\* the messages of the returned errors
QrErrorTexts == {last.returned.errors[i].text : i \in DOMAIN last.returned.errors}

\* C14: validate_itak_qr_format returns valid = true exactly when the
\* error list it returns is empty, on every return path; a detail
\* localhost_warning or length_warning does not make the result invalid.
C14_ValidIffNoErrors ==
  IsQrCall => (last.returned.valid = (last.returned.errors = <<>>))

\* a localhost host in a QR string of 1025 characters: both warnings, valid
C14_Witness ==
  /\ IsQrCall
  /\ {"localhost_warning", "length_warning"} \subseteq last.returned.details.keys
  /\ last.returned.errors = <<>>
  /\ last.returned.valid

\* the call got past the prefix check and found a query
QrQueryReached ==
  /\ IsQrCall
  /\ Truthy(last.qr_string)
  /\ itak_url_pattern(last.qr_string.s)
  /\ urlparse(last.qr_string.s).query # <<>>

\* the pieces of the query between '&'
QrRawPairs == Split(urlparse(last.qr_string.s).query, "&")

\* the key stands in the query with '=' and nothing after it, and nowhere
\* with a value
KeyGivenEmpty(key) ==
  /\ \E i \in DOMAIN QrRawPairs : QrRawPairs[i] = key \o << "=" >>
  /\ ~\E i \in DOMAIN QrRawPairs :
        /\ Len(QrRawPairs[i]) > Len(key) + 1
        /\ SubSeq(QrRawPairs[i], 1, Len(key) + 1) = key \o << "=" >>

\* the key stands nowhere in the query
KeyAbsent(key) ==
  ~\E i \in DOMAIN QrRawPairs :
     \/ QrRawPairs[i] = key
     \/ Len(QrRawPairs[i]) > Len(key) /\ SubSeq(QrRawPairs[i], 1, Len(key) + 1) = key \o << "=" >>

QrReports(text, key) ==
  \E i \in DOMAIN last.returned.errors : last.returned.errors[i] = QrError(text, key)

\* C13: for a QR string with the prefix and a query, a required key that
\* is present with an empty value makes the result invalid with an 'Empty
\* parameter: <key>' error, and a required key that is absent is reported
\* as 'Missing required parameter: <key>', not as empty.
C13_EmptyParameterReported ==
  QrQueryReached =>
    \A k \in DOMAIN required_params :
      LET key == required_params[k]
      IN /\ KeyGivenEmpty(key) =>
              (~last.returned.valid /\ QrReports("Empty parameter: ", key))
         /\ KeyAbsent(key) =>
              (QrReports("Missing required parameter: ", key)
               /\ ~QrReports("Empty parameter: ", key))

C21_UpperTiersLeaveSlot ==
  [][HostnameCallStep =>
       \A i \in DOMAIN last'.result :
         last'.result[i].detection_method \in {"override", "env_var"} =>
           (~last'.probed /\ last'.log = <<>> /\ cache' = cache)]_vars

\* probing enabled and the slot empty: a lower tier would have issued a
\* request, the environment tier returned and the slot is still empty
C21_Witness ==
  /\ IsHostnameCall /\ Returned /\ NoOverride
  /\ ~disable_external_ip
  /\ cache_timeout = 0
  /\ Result.detection_method = "env_var"
  /\ ~last.probed
  /\ cache.isNone

\* C22: each get_external_hostname call decides its environment tier on
\* the values EXTERNAL_HOST and SERVER_HOST have at that call: a variable
\* set after construction is returned with 'env_var', and once both are
\* unset or empty again the call goes on to the lower tiers.
C22_EnvReadAtEachCall ==
  [][(HostnameCallStep /\ ~Truthy(last'.override_host)) =>
       LET current == IF Truthy(env["EXTERNAL_HOST"]) THEN env["EXTERNAL_HOST"]
                      ELSE env["SERVER_HOST"]
       IN /\ Len(last'.result) = 1
          /\ IF Truthy(current)
             THEN /\ last'.result[1].detection_method = "env_var"
                  /\ last'.result[1].hostname = current
             ELSE last'.result[1].detection_method \in {"external_ip", "request_host", "fallback"}]_vars

\* the resolver was constructed without the variables (SpecEnv);
\* EXTERNAL_HOST was set since, and the call returned it
C22_Witness ==
  /\ IsHostnameCall /\ Returned /\ NoOverride
  /\ env["EXTERNAL_HOST"] = Some(sExtHost)
  /\ Result.detection_method = "env_var"
  /\ Result.hostname = Some(sExtHost)

C24_LongLabelRejected ==
  (last.op = "validate_hostname" /\ Truthy(last.hostname)) =>
     LET labels == Split(Strip(last.hostname.s), ".")
     IN /\ (\E i \in DOMAIN labels : Len(labels[i]) > 63) => ~last.returned.valid
        /\ last.hostname.s = Rep("a", 63) => last.returned.valid

\* C25: is_localhost_address classifies a string of the form 127.a.b.c as
\* localhost only when a, b and c are octets (0..255).
C25_LoopbackOctetsInRange ==
  (last.op = "is_localhost_address" /\ Truthy(last.hostname)) =>
     LET n == Strip(Lower(last.hostname.s))
     IN (Is127Form(n) /\ \E i \in 2..4 : IntCapped(QuadFields(n)[i]) > 255) => ~last.returned

\* C26: for every host value in the query of a QR string with the prefix,
\* validate_itak_qr_format reports 'Invalid hostname format' exactly when
\* validate_hostname returns invalid for that value.
C26_SameHostsAccepted ==
  (QrQueryReached /\ "host" \in last.returned.details.keys) =>
     LET host == last.returned.details.host
     IN QrReports("Invalid hostname format: ", host) = ~validate_hostname(Some(host)).valid

(***************************************************************************)
(* The slot.                                                               *)
(***************************************************************************)
\* C27: whatever the slot holds before the call (None, an empty dict, an
\* entry without ip or timestamp, an empty ip, a timestamp that is None or
\* no datetime), get_external_ip does not raise, asks the services, and
\* returns the IP of the service that answered a valid one.
C27_CorruptSlotProbed ==
  [][(IpCallStep /\ cache \in {CacheNone} \cup InjectedCaches(now)) =>
       /\ ~last'.raised
       /\ last'.log # <<>>
       /\ last'.log[Len(last'.log)].outcome = "ok" =>
            last'.ip = Some(last'.log[Len(last'.log)].ip)]_vars

\* C28: a get_external_ip call whose requests all fail returns None and
\* leaves the slot as it was, an expired entry included; the slot changes
\* only by a call that got a valid IP, which writes that IP, or by
\* clear_cache, which empties it.
C28_FailedProbeLeavesSlot ==
  [][/\ IpCallStep =>
          /\ (last'.log # <<>> /\ AllFailed(last'.log)) => (last'.ip = None /\ cache' = cache)
          /\ cache' # cache =>
               /\ last'.log # <<>>
               /\ last'.log[Len(last'.log)].outcome = "ok"
               /\ is_valid_ip(last'.ip)
               /\ cache'.ip = Key(last'.ip)
     /\ cache' # cache =>
          \/ last'.op = "get_external_ip"
          \/ last'.op = "clear_cache" /\ cache' = CacheNone]_vars

\* the entry is two units old with a timeout of 2, the four services were
\* asked and failed, None was returned and the entry is still there
C28_Witness ==
  /\ IsIpCall /\ last.at = now /\ ~last.raised
  /\ Len(last.log) = Len(EXTERNAL_IP_SERVICES) /\ AllFailed(last.log)
  /\ last.ip = None
  /\ SlotExpired
  /\ cache_timeout = 2 /\ now - cache.timestamp.t = 2
  /\ Truthy(cache.ip.v)
  /\ cache.service # ""

\* four runs of decimal digits separated by dots, each 0..255
StrictDottedQuad(ip) ==
  /\ ~ip.isNone
  /\ QuadFields(ip.s) # <<>>
  /\ \A i \in 1..4 : IntCapped(QuadFields(ip.s)[i]) <= 255

\* C29: after any sequence of get_external_ip, get_external_hostname and
\* clear_cache calls the slot is empty or holds a strict dotted quad with
\* the URL of the service that supplied it; every value other than None
\* that get_external_ip returns, and every hostname of an external_ip
\* result, is a strict dotted quad.
C29_SlotHoldsValidIp ==
  /\ \/ cache.isNone
     \/ /\ cache.ip.has /\ StrictDottedQuad(cache.ip.v)
        /\ cache.timestamp.k = "datetime"
        /\ \E i \in DOMAIN EXTERNAL_IP_SERVICES : cache.service = EXTERNAL_IP_SERVICES[i]
  /\ (last.op \in {"get_external_ip", "get_external_hostname"}
      /\ last.log # <<>> /\ last.log[Len(last.log)].outcome = "ok")
       => (cache.service = last.log[Len(last.log)].service
           /\ cache.ip = Key(Some(last.log[Len(last.log)].ip)))
  /\ (IsIpCall /\ ~last.ip.isNone) => StrictDottedQuad(last.ip)
  /\ (IsHostnameCall /\ Returned /\ Result.detection_method = "external_ip")
       => StrictDottedQuad(Result.hostname)

\* the first service answered '256.1.1.1', httpbin answered the origin
\* '1.2.3.4, 9.9.9.9': the result and the slot hold '1.2.3.4'
C29_Witness ==
  /\ IsHostnameCall /\ Returned
  /\ Result.detection_method = "external_ip"
  /\ Len(last.log) = 2
  /\ Result.hostname = Some(<< "1", ".", "2", ".", "3", ".", "4" >>)
  /\ cache.ip = Key(Result.hostname)
  /\ cache.service = "https://httpbin.org/ip"

\* C30: in every result of get_external_hostname, of whatever tier, the
\* field is_localhost is what is_localhost_address answers for the
\* returned hostname.
C30_IsLocalhostMatchesHostname ==
  (IsHostnameCall /\ Returned) =>
     Result.is_localhost = is_localhost_address(Result.hostname)

====
